---------------------------- MODULE Spec2Model ----------------------------
(***************************************************************************)
(* cap2geojson: conversion of a CAP alert (XML text) to a GeoJSON          *)
(* FeatureCollection.  The module models src/src/cap2geojson/convert.py.   *)
(*                                                                         *)
(* Python values are modelled as follows.                                  *)
(*   str    a sequence of one-character strings                            *)
(*   float  a decimal floating-point number [m |-> mantissa, e |-> exp]    *)
(*          of value m * 10^e, kept normalised (no trailing zero in m),    *)
(*          every operation rounding its exact result to Prec significant  *)
(*          digits, ties to even.  Python's float is IEEE binary64, which  *)
(*          rounds the same way at 53 bits.  The zero has no sign.         *)
(*   the values of the parsed alert carry their type t and content v:      *)
(*          str, None, list (a sequence of values), dict (the sequence of  *)
(*          its <<key, value>> items in insertion order)                   *)
(*   a call either returns or raises: [ok |-> TRUE, val |-> v] or          *)
(*          [ok |-> FALSE, exc |-> "ValueError"]                           *)
(*                                                                         *)
(* The libraries the module calls are modelled by what they do: re.sub,    *)
(* xmltodict.parse (on expat) and json.dumps.  A function that walks a     *)
(* long text or list from left to right does it by halves, so that the     *)
(* evaluation stays shallow.                                               *)
(***************************************************************************)
EXTENDS Integers, Sequences, FiniteSets, TLC

VARIABLES pc, fn, arg, ret, calls, prev

vars == <<pc, fn, arg, ret, calls, prev>>

-----------------------------------------------------------------------------
(* Bounds of the model *)

\* significant decimal digits a float keeps
Prec == 3
\* longest ring handed to ensure_counter_clockwise
MaxRing == 4
\* how often ensure_counter_clockwise is applied to the same list
MaxCalls == 2

-----------------------------------------------------------------------------
(* Call results *)

Ok(v) == [ok |-> TRUE, val |-> v]

Raise(e) == [ok |-> FALSE, exc |-> e]

NoValue == <<>>

\* F(r.val) when the call r returned, and r's exception otherwise
Bind(r, F(_)) == IF r.ok THEN F(r.val) ELSE r

-----------------------------------------------------------------------------
(* float *)

Abs(n) == IF n < 0 THEN -n ELSE n

Sign(n) == IF n < 0 THEN -1 ELSE IF n > 0 THEN 1 ELSE 0

RECURSIVE Pow10(_)
Pow10(k) == IF k <= 0 THEN 1 ELSE 10 * Pow10(k - 1)

\* number of decimal digits of a natural number (0 has none)
RECURSIVE NumDigits(_)
NumDigits(n) == IF n = 0 THEN 0 ELSE 1 + NumDigits(n \div 10)

\* quotient q and remainder r of a division by 2 * half: q rounded half to even
RoundQuotient(q, r, half) ==
    IF r > half \/ (r = half /\ q % 2 = 1) THEN q + 1 ELSE q

DivRound(a, p) == RoundQuotient(a \div p, a % p, p \div 2)

\* a natural number a without its k >= 1 lowest digits, rounded half to even
RoundHalfEven(a, k) == DivRound(a, Pow10(k))

RECURSIVE StripZeros(_, _, _)
StripZeros(sign, a, e) ==
    IF a = 0 THEN [m |-> 0, e |-> 0]
    ELSE IF a % 10 = 0 THEN StripZeros(sign, a \div 10, e + 1)
    ELSE [m |-> sign * a, e |-> e]

\* sign * a * 10^e with the k lowest digits of a rounded away
RoundAway(sign, a, e, k) ==
    IF k > 0 THEN StripZeros(sign, RoundHalfEven(a, k), e + k)
    ELSE StripZeros(sign, a, e)

\* the float nearest to m * 10^e
MkFloat(m, e) == RoundAway(Sign(m), Abs(m), e, NumDigits(Abs(m)) - Prec)

FZero == [m |-> 0, e |-> 0]

FInt(n) == MkFloat(n, 0)

FNeg(a) == [m |-> -a.m, e |-> a.e]

FMul(a, b) == MkFloat(a.m * b.m, a.e + b.e)

\* the exponent of the digit above a's leading digit
Top(a) == NumDigits(Abs(a.m)) + a.e

\* lo in units of 10^E; what lo has below that is kept as one sticky digit
LowPart(lo, E) ==
    IF lo.e >= E THEN lo.m * Pow10(lo.e - E)
    ELSE Sign(lo.m) * ((Abs(lo.m) \div Pow10(E + 1 - lo.e)) * 10 + 1)

AddAt(hi, lo, E) == MkFloat(hi.m * Pow10(hi.e - E) + LowPart(lo, E), E)

\* a + b, correctly rounded: both operands are brought to the exponent three
\* digits below the last digit kept of the larger one
FAdd(a, b) ==
    IF a.m = 0 THEN b
    ELSE IF b.m = 0 THEN a
    ELSE IF Top(a) >= Top(b) THEN AddAt(a, b, Top(a) - Prec - 3)
    ELSE AddAt(b, a, Top(b) - Prec - 3)

FSub(a, b) == FAdd(a, FNeg(b))

FIsNegative(a) == a.m < 0

\* area / 2
FHalf(a) == FMul(a, [m |-> 5, e |-> -1])

-----------------------------------------------------------------------------
(* Sequences *)

Reverse(s) == [i \in 1..Len(s) |-> s[Len(s) + 1 - i]]

\* all sequences over S of length at most n
SeqsUpTo(S, n) == UNION {[1..k -> S] : k \in 0..n}

-----------------------------------------------------------------------------
(* ensure_counter_clockwise *)

\* x1 * y2 - x2 * y1 for the vertices p1 = (x1, y1) and p2 = (x2, y2)
cross_term(p1, p2) == FSub(FMul(p1[1], p2[2]), FMul(p2[1], p1[2]))

\* the loop of signed_area after its first i iterations (the 0-based indices
\* i .. n-1 remain), area being the sum so far; unpacking a vertex that is
\* not a pair raises
RECURSIVE signed_area_loop(_, _, _)
signed_area_loop(coords, i, area) ==
    IF i >= Len(coords) THEN Ok(FHalf(area))
    ELSE IF Len(coords[i + 1]) # 2 THEN Raise("ValueError")
    ELSE IF Len(coords[((i + 1) % Len(coords)) + 1]) # 2 THEN Raise("ValueError")
    ELSE signed_area_loop(coords, i + 1,
             FAdd(area, cross_term(coords[i + 1],
                                   coords[((i + 1) % Len(coords)) + 1])))

signed_area(coords) == signed_area_loop(coords, 0, FZero)

\* mutant: the reversal drops the closing vertex
reverse_if_negative_open(coords, area) ==
    IF FIsNegative(area) THEN Ok(Tail(Reverse(coords))) ELSE Ok(coords)

\* coords.reverse() when the area is negative
reverse_if_negative(coords, area) ==
    IF FIsNegative(area) THEN Ok(Reverse(coords)) ELSE Ok(coords)

ensure_counter_clockwise(coords) ==
    Bind(signed_area(coords), LAMBDA area : reverse_if_negative(coords, area))

-----------------------------------------------------------------------------
(* get_all_circle_coords *)

\* round(x, 5) keeps this many decimal places
RoundDigits == 5

\* round(x, RoundDigits): the nearest multiple of 10^-RoundDigits, half to even
FRound(x) ==
    IF x.e >= -RoundDigits THEN x
    ELSE MkFloat(Sign(x.m) * RoundHalfEven(Abs(x.m), (-RoundDigits) - x.e),
                 -RoundDigits)

\* math.cos and math.sin of i / n_points * math.tau, in units of 10^-4, for
\* the values of n_points the model uses
CosTable ==
    1 :> <<10000>> @@
    2 :> <<10000, -10000>> @@
    3 :> <<10000, -5000, -5000>> @@
    4 :> <<10000, 0, -10000, 0>> @@
    5 :> <<10000, 3090, -8090, -8090, 3090>> @@
    6 :> <<10000, 5000, -5000, -10000, -5000, 5000>> @@
    7 :> <<10000, 6235, -2225, -9010, -9010, -2225, 6235>> @@
    8 :> <<10000, 7071, 0, -7071, -10000, -7071, 0, 7071>> @@
    100 :> <<10000, 9980, 9921, 9823, 9686, 9511, 9298, 9048, 8763, 8443,
           8090, 7705, 7290, 6845, 6374, 5878, 5358, 4818, 4258, 3681, 3090,
           2487, 1874, 1253, 628, 0, -628, -1253, -1874, -2487, -3090,
           -3681, -4258, -4818, -5358, -5878, -6374, -6845, -7290, -7705,
           -8090, -8443, -8763, -9048, -9298, -9511, -9686, -9823, -9921,
           -9980, -10000, -9980, -9921, -9823, -9686, -9511, -9298, -9048,
           -8763, -8443, -8090, -7705, -7290, -6845, -6374, -5878, -5358,
           -4818, -4258, -3681, -3090, -2487, -1874, -1253, -628, 0, 628,
           1253, 1874, 2487, 3090, 3681, 4258, 4818, 5358, 5878, 6374, 6845,
           7290, 7705, 8090, 8443, 8763, 9048, 9298, 9511, 9686, 9823, 9921,
           9980>>

SinTable ==
    1 :> <<0>> @@
    2 :> <<0, 0>> @@
    3 :> <<0, 8660, -8660>> @@
    4 :> <<0, 10000, 0, -10000>> @@
    5 :> <<0, 9511, 5878, -5878, -9511>> @@
    6 :> <<0, 8660, 8660, 0, -8660, -8660>> @@
    7 :> <<0, 7818, 9749, 4339, -4339, -9749, -7818>> @@
    8 :> <<0, 7071, 10000, 7071, 0, -7071, -10000, -7071>> @@
    100 :> <<0, 628, 1253, 1874, 2487, 3090, 3681, 4258, 4818, 5358, 5878,
           6374, 6845, 7290, 7705, 8090, 8443, 8763, 9048, 9298, 9511, 9686,
           9823, 9921, 9980, 10000, 9980, 9921, 9823, 9686, 9511, 9298,
           9048, 8763, 8443, 8090, 7705, 7290, 6845, 6374, 5878, 5358, 4818,
           4258, 3681, 3090, 2487, 1874, 1253, 628, 0, -628, -1253, -1874,
           -2487, -3090, -3681, -4258, -4818, -5358, -5878, -6374, -6845,
           -7290, -7705, -8090, -8443, -8763, -9048, -9298, -9511, -9686,
           -9823, -9921, -9980, -10000, -9980, -9921, -9823, -9686, -9511,
           -9298, -9048, -8763, -8443, -8090, -7705, -7290, -6845, -6374,
           -5878, -5358, -4818, -4258, -3681, -3090, -2487, -1874, -1253,
           -628>>

TrigPoints == DOMAIN CosTable

cos_theta(i, n_points) == MkFloat(CosTable[n_points][i + 1], -4)

sin_theta(i, n_points) == MkFloat(SinTable[n_points][i + 1], -4)

\* get_circle_coord for theta = i / n_points * math.tau
get_circle_coord(i, n_points, x_centre, y_centre, radius) ==
    << FRound(FAdd(FMul(radius, cos_theta(i, n_points)), x_centre)),
       FRound(FAdd(FMul(radius, sin_theta(i, n_points)), y_centre)) >>

\* mutant: the ring is left open
append_first_missing(circle_coords) ==
    IF circle_coords = <<>> THEN Raise("IndexError") ELSE Ok(circle_coords)

\* circle_coords.append(circle_coords[0])
append_first(circle_coords) ==
    IF circle_coords = <<>> THEN Raise("IndexError")
    ELSE Ok(Append(circle_coords, circle_coords[1]))

get_all_circle_coords(x_centre, y_centre, radius, n_points) ==
    append_first([k \in 1..n_points |->
        get_circle_coord(k - 1, n_points, x_centre, y_centre, radius)])

-----------------------------------------------------------------------------
(* Python values of the parsed alert: str, None, dict, list *)

Str(s) == [t |-> "str", v |-> s]

None == [t |-> "None", v |-> <<>>]

\* items is the sequence of the dict's <<key, value>> pairs in insertion
\* order, the keys being str and different from each other
Dict(items) == [t |-> "dict", v |-> items]

List(l) == [t |-> "list", v |-> l]

\* key in d
HasKey(d, key) == \E i \in 1..Len(d.v) : d.v[i][1] = key

\* d[key] for a key of d
Lookup(d, key) == d.v[CHOOSE i \in 1..Len(d.v) : d.v[i][1] = key][2]

\* d.get(key)
Get(d, key) == IF HasKey(d, key) THEN Lookup(d, key) ELSE None

\* d[key]
Subscript(d, key) ==
    IF d.t # "dict" THEN Raise("TypeError")
    ELSE IF HasKey(d, key) THEN Ok(Lookup(d, key))
    ELSE Raise("KeyError")

-----------------------------------------------------------------------------
(* str methods *)

Whitespace == {" ", "\n"}

DigitChars == {"0", "1", "2", "3", "4", "5", "6", "7", "8", "9"}

DigitVal(c) ==
    CASE c = "0" -> 0 [] c = "1" -> 1 [] c = "2" -> 2 [] c = "3" -> 3
      [] c = "4" -> 4 [] c = "5" -> 5 [] c = "6" -> 6 [] c = "7" -> 7
      [] c = "8" -> 8 [] c = "9" -> 9

\* s.replace(c, "")
Remove(s, c) == SelectSeq(s, LAMBDA ch : ch # c)

\* s.split(c) for a one-character separator: every occurrence splits, empty
\* pieces are kept; cur is the piece being read
RECURSIVE SplitOnFrom(_, _, _)
SplitOnFrom(s, c, cur) ==
    IF s = <<>> THEN <<cur>>
    ELSE IF s[1] = c THEN <<cur>> \o SplitOnFrom(Tail(s), c, <<>>)
    ELSE SplitOnFrom(Tail(s), c, Append(cur, s[1]))

SplitOn(s, c) == SplitOnFrom(s, c, <<>>)

\* the positions of s where a piece of s.split() starts
PieceStarts(s) ==
    { i \in 1..Len(s) :
          s[i] \notin Whitespace /\ (i = 1 \/ s[i - 1] \in Whitespace) }

\* the last position of the piece that starts at position i
PieceEnd(s, i) ==
    CHOOSE j \in i..Len(s) :
        /\ \A k \in i..j : s[k] \notin Whitespace
        /\ j = Len(s) \/ s[j + 1] \in Whitespace

\* the n-th position of starts, from the left
NthOf(starts, n) ==
    CHOOSE i \in starts : Cardinality({ j \in starts : j <= i }) = n

Piece(s, i) == SubSeq(s, i, PieceEnd(s, i))

Pieces(s, starts) ==
    [n \in 1..Cardinality(starts) |-> Piece(s, NthOf(starts, n))]

\* s.split(): split on runs of whitespace, no empty pieces
Split(s) == Pieces(s, PieceStarts(s))

\* s.strip()
RECURSIVE LStrip(_)
LStrip(s) ==
    IF s # <<>> /\ s[1] \in Whitespace THEN LStrip(Tail(s)) ELSE s

Strip(s) == Reverse(LStrip(Reverse(LStrip(s))))

\* sub in s
Contains(s, sub) ==
    \E i \in 1..(Len(s) - Len(sub) + 1) : SubSeq(s, i, i + Len(sub) - 1) = sub

\* the first position from i on where ch stands in the text, 0 when nowhere
RECURSIVE IndexFrom(_, _, _)
IndexFrom(text, ch, i) ==
    IF i > Len(text) THEN 0
    ELSE IF text[i] = ch THEN i
    ELSE IndexFrom(text, ch, i + 1)

Find(text, ch) == IndexFrom(text, ch, 1)

\* the digits of s read as a natural number
RECURSIVE DigitsValue(_, _)
DigitsValue(s, acc) ==
    IF s = <<>> THEN acc ELSE DigitsValue(Tail(s), 10 * acc + DigitVal(s[1]))

IsDigits(s) == \A i \in 1..Len(s) : s[i] \in DigitChars

\* the number written as the digits whole, a point and the digits frac
float_of_parts(sign, whole, frac) ==
    IF (whole \o frac) # <<>> /\ IsDigits(whole) /\ IsDigits(frac)
    THEN Ok(MkFloat(sign * DigitsValue(whole \o frac, 0), -Len(frac)))
    ELSE Raise("ValueError")

float_unsigned(sign, parts) ==
    IF Len(parts) = 1 THEN float_of_parts(sign, parts[1], <<>>)
    ELSE IF Len(parts) = 2 THEN float_of_parts(sign, parts[1], parts[2])
    ELSE Raise("ValueError")

float_stripped(t) ==
    IF t # <<>> /\ t[1] = "-" THEN float_unsigned(-1, SplitOn(Tail(t), "."))
    ELSE IF t # <<>> /\ t[1] = "+" THEN float_unsigned(1, SplitOn(Tail(t), "."))
    ELSE float_unsigned(1, SplitOn(t, "."))

\* float(s): surrounding whitespace is ignored; an optional sign, then digits
\* with at most one point among them and at least one digit.  (Exponents,
\* underscores, "inf" and "nan" need characters outside the model's alphabet.)
float(s) == float_stripped(Strip(s))

\* [f(x) for x in xs], the first call that raises ending the loop
RECURSIVE MapResult(_, _)
MapResult(F(_), xs) ==
    IF xs = <<>> THEN Ok(<<>>)
    ELSE Bind(F(xs[1]), LAMBDA h :
         Bind(MapResult(F, Tail(xs)), LAMBDA r : Ok(<<h>> \o r)))

\* list(map(float, strs))
map_float(strs) == MapResult(float, strs)

-----------------------------------------------------------------------------
(* get_polygon_coordinates, get_geometry *)

\* the n-gon of a circle
NPoints == 100

\* x_centre, y_centre = map(float, centre.split(",")), then the n-gon
circle_of(centre, radius) ==
    IF Len(centre) # 2 THEN Raise("ValueError")
    ELSE get_all_circle_coords(centre[1], centre[2], radius, NPoints)

\* centre, radius = single_area["circle"].split(" ")
circle_parts(parts) ==
    IF Len(parts) # 2 THEN Raise("ValueError")
    ELSE Bind(float(parts[2]), LAMBDA radius :
         Bind(map_float(SplitOn(parts[1], ",")), LAMBDA centre :
              circle_of(centre, radius)))

circle_branch(circle) ==
    IF circle.t # "str" THEN Raise("AttributeError")
    ELSE circle_parts(SplitOn(circle.v, " "))

\* list(map(float, coord.split(",")))
coord_floats(coord) == map_float(SplitOn(coord, ","))

polygon_branch(polygon) ==
    IF polygon.t # "str" THEN Raise("AttributeError")
    ELSE Bind(MapResult(coord_floats, Split(Remove(polygon.v, "\n"))),
              ensure_counter_clockwise)

CircleKey == <<"c", "i", "r", "c", "l", "e">>

PolygonKey == <<"p", "o", "l", "y", "g", "o", "n">>

\* key in single_area, for the kinds of value the parser can hand over
In(key, single_area) ==
    CASE single_area.t = "dict" -> Ok(HasKey(single_area, key))
      [] single_area.t = "str"  -> Ok(Contains(single_area.v, key))
      [] single_area.t = "list" -> Ok(FALSE)
      [] OTHER                  -> Raise("TypeError")

get_polygon_coordinates(single_area) ==
    Bind(In(CircleKey, single_area), LAMBDA hasCircle :
        IF hasCircle THEN Bind(Subscript(single_area, CircleKey), circle_branch)
        ELSE Bind(In(PolygonKey, single_area), LAMBDA hasPolygon :
            IF hasPolygon
            THEN Bind(Subscript(single_area, PolygonKey), polygon_branch)
            ELSE Ok(<<>>)))

\* mutant: the polygon of a MultiPolygon is the ring itself
one_ring_flat(a) == get_polygon_coordinates(a)

\* [get_polygon_coordinates(a)]
one_ring(a) == Bind(get_polygon_coordinates(a), LAMBDA ring : Ok(<<ring>>))

get_geometry(area) ==
    IF area.t = "list"
    THEN Bind(MapResult(one_ring, area.v), LAMBDA coordinates :
              Ok([type |-> "MultiPolygon", coordinates |-> coordinates]))
    ELSE Bind(get_polygon_coordinates(area), LAMBDA ring :
              Ok([type |-> "Polygon", coordinates |-> <<ring>>]))

-----------------------------------------------------------------------------
(* preprocess_alert *)

\* the characters \w matches, among the characters of the documents
WordChars ==
    {"a", "b", "c", "d", "e", "f", "g", "h", "i", "j", "k", "l", "m", "n",
     "o", "p", "q", "r", "s", "t", "u", "v", "w", "x", "y", "z",
     "A", "B", "C", "D", "E", "F", "G", "H", "I", "J", "K", "L", "M", "N",
     "O", "P", "Q", "R", "S", "T", "U", "V", "W", "X", "Y", "Z", "_"}
        \cup DigitChars

\* the text without its first n characters
Drop(text, n) == SubSeq(text, n + 1, Len(text))

\* the position after the characters \w matches from position i on
RECURSIVE WordEnd(_, _)
WordEnd(text, i) ==
    IF i <= Len(text) /\ text[i] \in WordChars THEN WordEnd(text, i + 1)
    ELSE i

CapPrefix == <<"c", "a", "p", ":">>

\* the pattern <(/?)cap:(\w+) matches at position i of the text, opener
\* being "<" or "</"
MatchesAt(text, i, opener) ==
    /\ i + Len(opener) + 4 <= Len(text)
    /\ SubSeq(text, i, i + Len(opener) + 3) = opener \o CapPrefix
    /\ text[i + Len(opener) + 4] \in WordChars

\* mutant: only the opening tags lose the prefix
opener_of_open_tag(text, i) ==
    IF MatchesAt(text, i, <<"<">>) THEN <<"<">> ELSE <<>>

\* the "<" and the group (/?) of a match at position i of the text, the
\* empty string when there is no match
opener_of(text, i) ==
    IF MatchesAt(text, i, <<"<", "/">>) THEN <<"<", "/">>
    ELSE IF MatchesAt(text, i, <<"<">>) THEN <<"<">>
    ELSE <<>>

\* a match from position i to position last is replaced by its two groups
sub_match(text, sub, opener, first, last) ==
    [out  |-> sub.out \o opener \o SubSeq(text, first, last - 1),
     next |-> last]

\* re.sub at position i: sub.out is the text made so far and sub.next the
\* position where the search goes on
sub_step(text, sub, i, opener) ==
    IF opener = <<>> THEN [out |-> Append(sub.out, text[i]), next |-> i + 1]
    ELSE sub_match(text, sub, opener, i + Len(opener) + 4,
                   WordEnd(text, i + Len(opener) + 4))

sub_at(text, sub, i) ==
    IF i < sub.next THEN sub ELSE sub_step(text, sub, i, opener_of(text, i))

\* re.sub over the positions lo to hi, from left to right
RECURSIVE sub_range(_, _, _, _)
sub_rest(text, sub, lo, hi) ==
    IF sub.next > hi THEN sub ELSE sub_range(text, sub, lo, hi)

sub_range(text, sub, lo, hi) ==
    IF lo = hi THEN sub_at(text, sub, lo)
    ELSE sub_rest(text, sub_range(text, sub, lo, (lo + hi) \div 2),
                  (lo + hi) \div 2 + 1, hi)

preprocess_alert(xml) ==
    IF xml = <<>> THEN <<>>
    ELSE sub_range(xml, [out |-> <<>>, next |-> 1], 1, Len(xml)).out

-----------------------------------------------------------------------------
(* xmltodict.parse, for documents made of the characters of names, ",", "-",
   ".", ":", " ", "\n", "<", ">" and "/": tags without attributes and
   character data, no declaration, comment, entity or CDATA section *)

NameStartChars == (WordChars \ DigitChars) \cup {":"}

NameChars == WordChars \cup {":", "-", "."}

IsName(name) ==
    /\ name # <<>>
    /\ name[1] \in NameStartChars
    /\ \A i \in 1..Len(name) : name[i] \in NameChars

RStrip(s) == Reverse(LStrip(Reverse(s)))

TextKey == <<"#", "t", "e", "x", "t">>

\* the element being read: its name, its children so far (None or a dict)
\* and its character data so far
Frame(name) == [name |-> name, item |-> None, data |-> <<>>]

\* a second value under a key makes a list, a further one extends it
appended(value, data) ==
    IF value.t = "list" THEN List(Append(value.v, data))
    ELSE List(<<value, data>>)

KeyIndex(item, key) == CHOOSE i \in 1..Len(item.v) : item.v[i][1] = key

push_data(item, key, data) ==
    IF item.t = "None" THEN Dict(<< <<key, data>> >>)
    ELSE IF HasKey(item, key)
    THEN Dict([item.v EXCEPT ![KeyIndex(item, key)]
                               = <<key, appended(@[2], data)>>])
    ELSE Dict(Append(item.v, <<key, data>>))

\* the character data of an element, stripped; None when nothing is left
strip_data(stripped) == IF stripped = <<>> THEN None ELSE Str(stripped)

\* the value of an element: its text, or its children, with the text under
\* "#text" when it has both
element_value(item, data) ==
    IF item.t = "None" THEN data
    ELSE IF data.t = "None" THEN item
    ELSE push_data(item, TextKey, data)

\* endElement: the element on top of the stack becomes a child of the one
\* below it
endElement(below, top) ==
    [below EXCEPT ![Len(below)].item
        = push_data(@, top.name,
                    element_value(top.item, strip_data(Strip(top.data))))]

\* characters: the data goes to the element on top of the stack
characters(stack, data) ==
    [stack EXCEPT ![Len(stack)].data = @ \o data]

Pop(stack) == SubSeq(stack, 1, Len(stack) - 1)

\* the parser between two characters: the stack of the elements that are
\* open, whether it is inside a tag, and the characters of the tag or of the
\* character data read so far
Reading(stack, tag) ==
    [ok |-> TRUE, stack |-> stack, tag |-> tag, buf |-> <<>>]

\* the document is not well-formed
Failed == [ok |-> FALSE, stack |-> <<>>, tag |-> FALSE, buf |-> <<>>]

\* a start tag, or an empty-element tag when empty; the document has one
\* root element
start_tag(stack, name, empty) ==
    IF ~IsName(name) \/ (Len(stack) = 1 /\ stack[1].item.t # "None")
    THEN Failed
    ELSE IF empty THEN Reading(endElement(stack, Frame(name)), FALSE)
    ELSE Reading(Append(stack, Frame(name)), FALSE)

\* an end tag closes the element on top of the stack
end_tag(stack, name) ==
    IF Len(stack) = 1 \/ stack[Len(stack)].name # name THEN Failed
    ELSE Reading(endElement(Pop(stack), stack[Len(stack)]), FALSE)

\* the markup between "<" and ">"
parse_tag(stack, tag) ==
    IF tag # <<>> /\ tag[1] = "/" THEN end_tag(stack, RStrip(Tail(tag)))
    ELSE IF tag # <<>> /\ tag[Len(tag)] = "/"
    THEN start_tag(stack, RStrip(SubSeq(tag, 1, Len(tag) - 1)), TRUE)
    ELSE start_tag(stack, RStrip(tag), FALSE)

\* character data; outside the root element it is white space
parse_data(stack, data, tag) ==
    IF Len(stack) = 1
    THEN (IF Strip(data) = <<>> THEN Reading(stack, tag) ELSE Failed)
    ELSE Reading(characters(stack, data), tag)

\* the next character of the document
parse_char(reading, ch) ==
    IF reading.tag
    THEN (CASE ch = ">" -> parse_tag(reading.stack, reading.buf)
            [] ch = "<" -> Failed
            [] OTHER    -> [reading EXCEPT !.buf = Append(@, ch)])
    ELSE IF ch = "<" THEN parse_data(reading.stack, reading.buf, TRUE)
    ELSE [reading EXCEPT !.buf = Append(@, ch)]

\* the characters lo to hi of the document, from left to right
RECURSIVE parse_range(_, _, _, _)
parse_rest(text, reading, lo, hi) ==
    IF ~reading.ok THEN reading ELSE parse_range(text, reading, lo, hi)

parse_range(text, reading, lo, hi) ==
    IF lo = hi THEN parse_char(reading, text[lo])
    ELSE parse_rest(text, parse_range(text, reading, lo, (lo + hi) \div 2),
                    (lo + hi) \div 2 + 1, hi)

\* the end of the document: every element is closed and there is a root
end_document(reading) ==
    IF ~reading.ok \/ Len(reading.stack) # 1
           \/ reading.stack[1].item.t = "None"
    THEN Raise("ExpatError")
    ELSE Ok(reading.stack[1].item)

\* the end of the text: no tag is left open
end_text(reading) ==
    IF ~reading.ok \/ reading.tag THEN Raise("ExpatError")
    ELSE end_document(parse_data(reading.stack, reading.buf, FALSE))

xmltodict_parse(xml) ==
    IF xml = <<>> THEN Raise("ExpatError")
    ELSE end_text(parse_range(xml, Reading(<<Frame(<<>>)>>, FALSE),
                              1, Len(xml)))

-----------------------------------------------------------------------------
(* get_properties, get_area_desc *)

AreaDescKey == <<"a", "r", "e", "a", "D", "e", "s", "c">>

InfoKey == <<"i", "n", "f", "o">>

AreaKey == <<"a", "r", "e", "a">>

\* the fields read from the alert, in the order of the properties
AlertFields ==
    << <<"i", "d", "e", "n", "t", "i", "f", "i", "e", "r">>,
       <<"s", "e", "n", "d", "e", "r">>,
       <<"s", "e", "n", "t">>,
       <<"s", "t", "a", "t", "u", "s">>,
       <<"m", "s", "g", "T", "y", "p", "e">>,
       <<"s", "c", "o", "p", "e">> >>

\* the fields read from the info block, in the order of the properties
InfoFields ==
    << <<"c", "a", "t", "e", "g", "o", "r", "y">>,
       <<"e", "v", "e", "n", "t">>,
       <<"u", "r", "g", "e", "n", "c", "y">>,
       <<"s", "e", "v", "e", "r", "i", "t", "y">>,
       <<"c", "e", "r", "t", "a", "i", "n", "t", "y">>,
       <<"e", "f", "f", "e", "c", "t", "i", "v", "e">>,
       <<"o", "n", "s", "e", "t">>,
       <<"e", "x", "p", "i", "r", "e", "s">>,
       <<"s", "e", "n", "d", "e", "r", "N", "a", "m", "e">>,
       <<"h", "e", "a", "d", "l", "i", "n", "e">>,
       <<"d", "e", "s", "c", "r", "i", "p", "t", "i", "o", "n">>,
       <<"i", "n", "s", "t", "r", "u", "c", "t", "i", "o", "n">>,
       <<"w", "e", "b">>,
       <<"c", "o", "n", "t", "a", "c", "t">> >>

\* the items "field": d.get("field") of the properties
get_fields(d, fields) ==
    [i \in 1..Len(fields) |-> <<fields[i], Get(d, fields[i])>>]

\* a["areaDesc"]
area_desc_of(a) == Subscript(a, AreaDescKey)

\* the strings joined by sep
RECURSIVE join_from(_, _)
join_from(sep, strs) ==
    IF strs = <<>> THEN <<>>
    ELSE IF Len(strs) = 1 THEN strs[1].v
    ELSE strs[1].v \o sep \o join_from(sep, Tail(strs))

\* mutant: the descriptions follow each other with nothing between them
join_without_separator(sep, strs) ==
    IF \A i \in 1..Len(strs) : strs[i].t = "str"
    THEN Ok(Str(join_from(<<>>, strs)))
    ELSE Raise("TypeError")

\* sep.join(strs)
join(sep, strs) ==
    IF \A i \in 1..Len(strs) : strs[i].t = "str"
    THEN Ok(Str(join_from(sep, strs)))
    ELSE Raise("TypeError")

CommaSpace == <<",", " ">>

join_comma_space(strs) == join(CommaSpace, strs)

get_area_desc(area) ==
    CASE area.t = "dict" -> Subscript(area, AreaDescKey)
      [] area.t = "list" ->
            Bind(MapResult(area_desc_of, area.v), join_comma_space)
      [] area.t = "str" ->
            \* a character of a str has no item "areaDesc"
            IF area.v = <<>> THEN Ok(Str(<<>>)) ELSE Raise("TypeError")
      [] OTHER -> Raise("TypeError")

\* the properties of an alert whose info block is info
properties_of(alert, info) ==
    IF info.t # "dict" THEN Raise("AttributeError")
    ELSE Bind(get_area_desc(Get(info, AreaKey)), LAMBDA areaDesc :
              Ok(Dict(get_fields(alert, AlertFields)
                          \o get_fields(info, InfoFields)
                          \o << <<AreaDescKey, areaDesc>> >>)))

get_properties(alert) ==
    Bind(Subscript(alert, InfoKey), LAMBDA info : properties_of(alert, info))

-----------------------------------------------------------------------------
(* json.dumps(result, indent=4) *)

Float(f) == [t |-> "float", v |-> f]

DigitChar(d) ==
    CASE d = 0 -> "0" [] d = 1 -> "1" [] d = 2 -> "2" [] d = 3 -> "3"
      [] d = 4 -> "4" [] d = 5 -> "5" [] d = 6 -> "6" [] d = 7 -> "7"
      [] d = 8 -> "8" [] d = 9 -> "9"

\* the decimal digits of a natural number
RECURSIVE NatChars(_)
NatChars(a) ==
    IF a < 10 THEN <<DigitChar(a)>>
    ELSE Append(NatChars(a \div 10), DigitChar(a % 10))

Zeros(k) == [i \in 1..k |-> "0"]

\* the digits with the decimal point after the first decpt of them
fixed_repr(digits, decpt) ==
    IF decpt <= 0 THEN <<"0", ".">> \o Zeros(-decpt) \o digits
    ELSE IF decpt >= Len(digits)
    THEN digits \o Zeros(decpt - Len(digits)) \o <<".", "0">>
    ELSE SubSeq(digits, 1, decpt) \o <<".">> \o Drop(digits, decpt)

\* the exponent of the scientific notation: a sign and two digits at least
exponent_repr(exp) ==
    <<"e", IF exp < 0 THEN "-" ELSE "+">>
        \o (IF Abs(exp) < 10 THEN <<"0">> ELSE <<>>) \o NatChars(Abs(exp))

scientific_repr(digits, decpt) ==
    <<digits[1]>> \o (IF Len(digits) > 1 THEN <<".">> \o Tail(digits) ELSE <<>>)
        \o exponent_repr(decpt - 1)

\* repr of a positive float with these digits, the decimal point after the
\* first decpt of them: the scientific notation below 0.0001 and from 1e16
digits_repr(digits, decpt) ==
    IF decpt <= -4 \/ decpt > 16 THEN scientific_repr(digits, decpt)
    ELSE fixed_repr(digits, decpt)

\* float.__repr__; the zero of the model has no sign
float_repr(f) ==
    IF f.m = 0 THEN <<"0", ".", "0">>
    ELSE (IF f.m < 0 THEN <<"-">> ELSE <<>>)
             \o digits_repr(NatChars(Abs(f.m)), NumDigits(Abs(f.m)) + f.e)

\* the characters of a str between the quotes
RECURSIVE escaped(_)
escaped(s) ==
    IF s = <<>> THEN <<>>
    ELSE (CASE s[1] = "\n" -> <<"\\", "n">>
            [] s[1] = "\"" -> <<"\\", "\"">>
            [] s[1] = "\\" -> <<"\\", "\\">>
            [] OTHER -> <<s[1]>>) \o escaped(Tail(s))

quoted(s) == <<"\"">> \o escaped(s) \o <<"\"">>

Indent == 4

newline_indent(level) == <<"\n">> \o [i \in 1..(Indent * level) |-> " "]

RECURSIVE dumps_at(_, _), dumps_list(_, _, _, _), dumps_dict(_, _, _, _)
\* the items lo to hi of a list, each on its line, commas between them
dumps_list(items, level, lo, hi) ==
    IF lo = hi THEN newline_indent(level) \o dumps_at(items[lo], level)
    ELSE dumps_list(items, level, lo, (lo + hi) \div 2) \o <<",">>
             \o dumps_list(items, level, (lo + hi) \div 2 + 1, hi)

\* the items lo to hi of a dict, each on its line, in the order of insertion
dumps_dict(items, level, lo, hi) ==
    IF lo = hi
    THEN newline_indent(level) \o quoted(items[lo][1]) \o <<":", " ">>
             \o dumps_at(items[lo][2], level)
    ELSE dumps_dict(items, level, lo, (lo + hi) \div 2) \o <<",">>
             \o dumps_dict(items, level, (lo + hi) \div 2 + 1, hi)

dumps_at(o, level) ==
    CASE o.t = "None"  -> <<"n", "u", "l", "l">>
      [] o.t = "str"   -> quoted(o.v)
      [] o.t = "float" -> float_repr(o.v)
      [] o.t = "list"  ->
            IF o.v = <<>> THEN <<"[", "]">>
            ELSE <<"[">> \o dumps_list(o.v, level + 1, 1, Len(o.v))
                     \o newline_indent(level) \o <<"]">>
      [] o.t = "dict"  ->
            IF o.v = <<>> THEN <<"{", "}">>
            ELSE <<"{">> \o dumps_dict(o.v, level + 1, 1, Len(o.v))
                     \o newline_indent(level) \o <<"}">>

json_dumps(o) == Str(dumps_at(o, 0))

-----------------------------------------------------------------------------
(* to_geojson *)

AlertKey == <<"a", "l", "e", "r", "t">>

TypeKey == <<"t", "y", "p", "e">>

FeaturesKey == <<"f", "e", "a", "t", "u", "r", "e", "s">>

PropertiesKey == <<"p", "r", "o", "p", "e", "r", "t", "i", "e", "s">>

GeometryKey == <<"g", "e", "o", "m", "e", "t", "r", "y">>

CoordinatesKey == <<"c", "o", "o", "r", "d", "i", "n", "a", "t", "e", "s">>

\* the lists of floats of a geometry, as Python values
point_value(point) == List([i \in 1..Len(point) |-> Float(point[i])])

ring_value(ring) == List([i \in 1..Len(ring) |-> point_value(ring[i])])

polygon_value(rings) == List([i \in 1..Len(rings) |-> ring_value(rings[i])])

coordinates_value(geometry) ==
    IF geometry.type = "Polygon" THEN polygon_value(geometry.coordinates)
    ELSE List([i \in 1..Len(geometry.coordinates)
                   |-> polygon_value(geometry.coordinates[i])])

type_value(geometry) ==
    IF geometry.type = "Polygon" THEN Str(<<"P", "o", "l", "y", "g", "o", "n">>)
    ELSE Str(<<"M", "u", "l", "t", "i", "P", "o", "l", "y", "g", "o", "n">>)

\* the dict get_geometry returns
geometry_value(geometry) ==
    Dict(<< <<TypeKey, type_value(geometry)>>,
            <<CoordinatesKey, coordinates_value(geometry)>> >>)

\* result
feature_collection(alert_properties, alert_geometry) ==
    Dict(<< <<TypeKey, Str(<<"F", "e", "a", "t", "u", "r", "e", "C", "o", "l", "l", "e", "c", "t", "i", "o", "n">>)>>,
            <<FeaturesKey,
              List(<< Dict(<< <<TypeKey, Str(<<"F", "e", "a", "t", "u", "r", "e">>)>>,
                              <<PropertiesKey, alert_properties>>,
                              <<GeometryKey, alert_geometry>> >>) >>)>> >>)

\* alert["info"]["area"]
info_area(alert) ==
    Bind(Subscript(alert, InfoKey), LAMBDA info : Subscript(info, AreaKey))

\* the value of a call, null when it raised
or_null(result) == IF result.ok THEN result.val ELSE None

geometry_or_null(result) ==
    IF result.ok THEN geometry_value(result.val) ELSE None

\* mutant: what cannot be read is left null in the result
convert_alert_partial(alert) ==
    Ok(json_dumps(feature_collection(
           or_null(get_properties(alert)),
           geometry_or_null(Bind(info_area(alert), get_geometry)))))

\* the properties, then the geometry, then the result and its text
convert_alert(alert) ==
    Bind(get_properties(alert), LAMBDA alert_properties :
    Bind(Bind(info_area(alert), get_geometry), LAMBDA alert_geometry :
         Ok(json_dumps(feature_collection(alert_properties,
                                          geometry_value(alert_geometry))))))

\* data["alert"]
data_alert(data) == Subscript(data, AlertKey)

to_geojson(xml) ==
    Bind(Bind(xmltodict_parse(preprocess_alert(xml)), data_alert),
         convert_alert)

-----------------------------------------------------------------------------
(* Rings handed to ensure_counter_clockwise directly *)

RingPoints ==
    { <<FInt(0), FInt(0)>>, <<FInt(1), FInt(0)>>, <<FInt(0), FInt(1)>>,
      <<FInt(34), FInt(34)>>, <<FInt(1), FInt(34)>>, <<FInt(34), FInt(1)>> }

Rings == SeqsUpTo(RingPoints, MaxRing)

\* The list object is created once (arg) and then normalised in place
\* MaxCalls times; ret is the outcome of the last call, prev the content of
\* the list before it.
InitWinding ==
    /\ pc = "ready"
    /\ fn = "ensure_counter_clockwise"
    /\ arg \in Rings
    /\ ret = NoValue
    /\ calls = 0
    /\ prev = NoValue

CallEnsureCounterClockwise ==
    /\ fn = "ensure_counter_clockwise"
    /\ calls < MaxCalls
    /\ calls > 0 => ret.ok
    /\ LET coords == IF calls = 0 THEN arg ELSE ret.val
       IN  /\ ret' = ensure_counter_clockwise(coords)
           /\ prev' = coords
    /\ calls' = calls + 1
    /\ pc' = "done"
    /\ UNCHANGED <<fn, arg>>

NextWinding == CallEnsureCounterClockwise

SpecWinding == InitWinding /\ [][NextWinding]_vars

-----------------------------------------------------------------------------
(* Inputs of the geometry functions *)

\* most tokens in a polygon string
MaxTokens == 4
\* most areas in an area sequence
MaxAreas == 3
\* largest n_points handed to get_all_circle_coords, besides NPoints
MaxPoints == 6

\* the pieces of s joined by sep
RECURSIVE JoinWith(_, _)
JoinWith(pieces, sep) ==
    IF pieces = <<>> THEN <<>>
    ELSE IF Len(pieces) = 1 THEN pieces[1]
    ELSE pieces[1] \o sep \o JoinWith(Tail(pieces), sep)

PolygonTokens ==
    { <<"0", ",", "0">>, <<"1", ",", "0">>,
      <<"1", ",", "1">>, <<"-", "1", ".", "5", ",", "0">>,
      <<"1">>, <<"x", ",", "1">> }

PolygonSeparators == { <<" ">>, <<"\n">>, <<" ", "\n", " ">> }

PolygonStrings ==
    { JoinWith(toks, sep) :
        toks \in SeqsUpTo(PolygonTokens, MaxTokens), sep \in PolygonSeparators }
    \cup { <<" ">> }

CircleCentres ==
    { <<"0", ",", "0">>, <<"1", ".", "5", ",", "-", "5", "1">>, <<"1">>,
      <<"x", ",", "0">>, <<"0", ",", "0", ",", "0">>, <<>> }

CircleSeparators == { <<" ">>, <<" ", " ">>, <<"\n">>, <<>> }

CircleRadii == { <<"1">>, <<"0", ".", "0", "0", "0", "0", "2">>, <<"-", "2">>, <<"x">>, <<>> }

CircleStrings ==
    { c \o sep \o r :
        c \in CircleCentres, sep \in CircleSeparators, r \in CircleRadii }

AreaDescA == Str(<<"A">>)

AreaDescB == Str(<<"B">>)

PolygonArea(p) == Dict(<< <<AreaDescKey, AreaDescA>>, <<PolygonKey, p>> >>)

CircleArea(c) == Dict(<< <<AreaDescKey, AreaDescB>>, <<CircleKey, c>> >>)

BareArea == Dict(<< <<AreaDescKey, AreaDescA>> >>)

EmptyDict == Dict(<<>>)

\* an area with both a circle and a polygon
BothArea(c, p) ==
    Dict(<< <<AreaDescKey, AreaDescB>>, <<PolygonKey, p>>, <<CircleKey, c>> >>)

SquareClockwise == <<"0", ",", "0", " ", "0", ",", "1", " ", "1", ",", "1", " ", "1", ",", "0", " ", "0", ",", "0">>

SingleAreas ==
    { PolygonArea(Str(p)) : p \in PolygonStrings }
    \cup { CircleArea(Str(c)) : c \in CircleStrings }
    \cup { BothArea(Str(c), Str(p)) :
             c \in { <<"0", ",", "0", " ", "1">>, <<"0", ",", "0">> },
             p \in { SquareClockwise, <<"x">> } }
    \cup { BareArea, EmptyDict, PolygonArea(None), CircleArea(None),
           PolygonArea(Str(SquareClockwise)) }

\* what the parser yields for an area element that holds text only
TextAreas == { Str(<<"A">>), Str(CircleKey), Str(PolygonKey) }

\* the areas area sequences are made of
SequenceAreas ==
    { PolygonArea(Str(SquareClockwise)),
      PolygonArea(Str(<<"0", ",", "0", " ", "1", ",", "0", " ", "1", ",", "1", " ", "0", ",", "0">>)),
      PolygonArea(Str(<<"0", ",", "0", " ", "1", ",", "0", " ", "1", ",", "1">>)),
      PolygonArea(Str(<<"0", ",", "0", " ", "1">>)),
      CircleArea(Str(<<"1", ".", "5", ",", "-", "5", "1", " ", "0", ".", "0", "0", "0", "0", "2">>)),
      BareArea }

AreaSequences == SeqsUpTo(SequenceAreas, MaxAreas) \ {<<>>}

CircleArgs ==
    [ x_centre : {FInt(0), MkFloat(15, -1)},
      y_centre : {FInt(0), FInt(-51)},
      radius   : {FInt(0), FInt(1), MkFloat(2, -5), FInt(-2), MkFloat(123, -1)},
      n_points : (0..MaxPoints) \cup {NPoints} ]

InitGeometry ==
    /\ pc = "ready"
    /\ \/ fn = "get_all_circle_coords" /\ arg \in CircleArgs
       \/ /\ fn \in {"get_polygon_coordinates", "get_geometry"}
          /\ \/ arg \in SingleAreas
             \/ arg \in TextAreas
             \/ arg = None
       \/ fn = "get_geometry" /\ arg \in {List(l) : l \in AreaSequences}
    /\ ret = NoValue
    /\ calls = 0
    /\ prev = NoValue

\* a pure function is called once on its argument
Return(f, result) ==
    /\ pc = "ready"
    /\ fn = f
    /\ ret' = result
    /\ pc' = "done"
    /\ calls' = calls + 1
    /\ UNCHANGED <<fn, arg, prev>>

CallGetAllCircleCoords ==
    /\ fn = "get_all_circle_coords"
    /\ Return("get_all_circle_coords",
              get_all_circle_coords(arg.x_centre, arg.y_centre, arg.radius,
                                    arg.n_points))

CallGetPolygonCoordinates ==
    /\ fn = "get_polygon_coordinates"
    /\ Return("get_polygon_coordinates", get_polygon_coordinates(arg))

CallGetGeometry ==
    /\ fn = "get_geometry"
    /\ Return("get_geometry", get_geometry(arg))

NextGeometry ==
    \/ CallGetAllCircleCoords
    \/ CallGetPolygonCoordinates
    \/ CallGetGeometry

SpecGeometry == InitGeometry /\ [][NextGeometry]_vars

-----------------------------------------------------------------------------
(* Claims about the geometry functions *)

Returned(f) == pc = "done" /\ fn = f

First(s) == s[1]

Last(s) == s[Len(s)]

IsClosed(ring) == ring # <<>> /\ First(ring) = Last(ring)

\* the tokens of a polygon string
Tokens(polygon) == Split(Remove(polygon, "\n"))

\* the area's ring comes from a circle, or from a polygon string whose first
\* and last points are equal
ClosedSource(area) ==
    /\ area.t = "dict"
    /\ \/ HasKey(area, CircleKey)
       \/ /\ HasKey(area, PolygonKey)
          /\ Lookup(area, PolygonKey).t = "str"
          /\ Tokens(Lookup(area, PolygonKey).v) # <<>>
          /\ coord_floats(First(Tokens(Lookup(area, PolygonKey).v)))
               = coord_floats(Last(Tokens(Lookup(area, PolygonKey).v)))

\* the areas of a get_geometry argument and the rings returned for them
AreasOf(area) == IF area.t = "list" THEN area.v ELSE <<area>>

RingsOf(geometry) ==
    IF geometry.type = "MultiPolygon"
    THEN [i \in 1..Len(geometry.coordinates) |-> geometry.coordinates[i][1]]
    ELSE geometry.coordinates

\* C1 (as amended): every ring get_geometry returns for an area with a circle,
\* or with a polygon string whose first and last points are equal, is not
\* empty and has its first coordinate pair equal to its last.
C1_ClosedSourcesGiveClosedRings ==
    (Returned("get_geometry") /\ ret.ok) =>
        \A i \in 1..Len(AreasOf(arg)) :
            ClosedSource(AreasOf(arg)[i]) => IsClosed(RingsOf(ret.val)[i])

\* C1 (as stated): every ring get_geometry returns, whatever the area, has
\* its first coordinate pair equal to its last (an empty ring has neither).
C1_EveryRingClosed ==
    (Returned("get_geometry") /\ ret.ok) =>
        \A i \in 1..Len(RingsOf(ret.val)) :
            RingsOf(ret.val)[i] = <<>> \/ IsClosed(RingsOf(ret.val)[i])

\* a clockwise closed polygon was reversed, next to a circle
C1_Witness ==
    /\ Returned("get_geometry") /\ ret.ok
    /\ arg.t = "list" /\ Len(arg.v) = 2
    /\ arg.v[1] = PolygonArea(Str(SquareClockwise))
    /\ HasKey(arg.v[2], CircleKey)
    /\ First(RingsOf(ret.val)[1]) = <<FInt(0), FInt(0)>>
    /\ RingsOf(ret.val)[1][2] = <<FInt(1), FInt(0)>>
    /\ IsClosed(RingsOf(ret.val)[1])
    /\ IsClosed(RingsOf(ret.val)[2])

\* C2: get_geometry on a single mapping returns a Polygon whose coordinates
\* are one ring, the ring of that area; on a sequence of k areas it returns a
\* MultiPolygon of k entries, the i-th holding exactly the ring of the i-th
\* area; it raises exactly when get_polygon_coordinates raises on an area.
C2_GeometryTypeFollowsAreaShape ==
    Returned("get_geometry") =>
        /\ ret.ok <=> \A i \in 1..Len(AreasOf(arg)) :
                          get_polygon_coordinates(AreasOf(arg)[i]).ok
        /\ (ret.ok /\ arg.t = "list") =>
              /\ ret.val.type = "MultiPolygon"
              /\ Len(ret.val.coordinates) = Len(arg.v)
              /\ \A i \in 1..Len(arg.v) :
                    ret.val.coordinates[i]
                        = <<get_polygon_coordinates(arg.v[i]).val>>
        /\ (ret.ok /\ arg.t = "dict") =>
              /\ ret.val.type = "Polygon"
              /\ ret.val.coordinates = <<get_polygon_coordinates(arg).val>>

\* a MultiPolygon of three different rings
C2_Witness ==
    /\ Returned("get_geometry") /\ ret.ok
    /\ arg.t = "list" /\ Len(arg.v) = 3
    /\ ret.val.type = "MultiPolygon"
    /\ Len(ret.val.coordinates) = 3
    /\ Len(ret.val.coordinates[1][1]) = 5
    /\ Len(ret.val.coordinates[2][1]) = NPoints + 1
    /\ ret.val.coordinates[3][1] = <<>>

Unsigned(s) == IF s # <<>> /\ s[1] \in {"-", "+"} THEN Tail(s) ELSE s

IsNumber(s) ==
    /\ \A i \in 1..Len(Unsigned(s)) : Unsigned(s)[i] \in DigitChars \cup {"."}
    /\ \E i \in 1..Len(Unsigned(s)) : Unsigned(s)[i] \in DigitChars
    /\ Cardinality({i \in 1..Len(Unsigned(s)) : Unsigned(s)[i] = "."}) <= 1

\* "<lon>,<lat>"
IsPair(s) ==
    \E i \in 1..Len(s) :
        /\ s[i] = ","
        /\ IsNumber(SubSeq(s, 1, i - 1))
        /\ IsNumber(SubSeq(s, i + 1, Len(s)))

\* "<lon>,<lat> <radius>"
CircleGrammar(s) ==
    \E i \in 1..Len(s) :
        /\ s[i] = " "
        /\ IsPair(SubSeq(s, 1, i - 1))
        /\ IsNumber(SubSeq(s, i + 1, Len(s)))

\* one or more whitespace-separated "<lon>,<lat>" tokens, newlines removed
PolygonGrammar(s) ==
    /\ Tokens(s) # <<>>
    /\ \A i \in 1..Len(Tokens(s)) : IsPair(Tokens(s)[i])

\* C8 (as stated): get_polygon_coordinates raises whenever the circle string,
\* or the polygon string of an area without a circle, does not match its
\* grammar.
C8_MalformedGeometryRaises ==
    (Returned("get_polygon_coordinates") /\ arg.t = "dict") =>
        /\ (HasKey(arg, CircleKey) /\ Lookup(arg, CircleKey).t = "str"
                /\ ~CircleGrammar(Lookup(arg, CircleKey).v)) => ~ret.ok
        /\ (~HasKey(arg, CircleKey) /\ HasKey(arg, PolygonKey)
                /\ Lookup(arg, PolygonKey).t = "str"
                /\ ~PolygonGrammar(Lookup(arg, PolygonKey).v)) => ~ret.ok

-----------------------------------------------------------------------------
(* Claims about ensure_counter_clockwise *)

\* the shoelace sum the code computes for a ring of pairs
ShoelaceNegative(ring) == FIsNegative(signed_area(ring).val)

\* C4 (as stated): ensure_counter_clockwise returns the reversal of the ring
\* when its shoelace sum is negative and the ring itself otherwise, never
\* raising, and the shoelace sum of what it returns is never negative.
C4_ReturnedRingNeverClockwise ==
    (fn = "ensure_counter_clockwise" /\ calls = 1) =>
        /\ ret.ok
        /\ ret.val = IF ShoelaceNegative(arg) THEN Reverse(arg) ELSE arg
        /\ ~ShoelaceNegative(ret.val)

\* C5 (as stated): a second application of ensure_counter_clockwise leaves
\* the result of the first unchanged.
C5_WindingIdempotent ==
    (fn = "ensure_counter_clockwise" /\ calls = 2) => ret.val = prev

-----------------------------------------------------------------------------
(* Texts handed to preprocess_alert *)

MaxPieces == 5

NamespacePieces ==
    { <<"<">>, <<"/">>, <<">">>, CapPrefix, <<"n", "s", ":">>,
      <<"i", "n", "f", "o">> }

ExampleElement == <<"<", "c", "a", "p", ":", "i", "n", "f", "o", ">", "x", "<", "/", "c", "a", "p", ":", "i", "n", "f", "o", ">">>

NamespaceTexts ==
    { JoinWith(pieces, <<>>) : pieces \in SeqsUpTo(NamespacePieces, MaxPieces) }
        \cup {ExampleElement}

InitNamespace ==
    /\ pc = "ready"
    /\ fn = "preprocess_alert"
    /\ arg \in NamespaceTexts
    /\ ret = NoValue
    /\ calls = 0
    /\ prev = NoValue

CallPreprocessAlert ==
    /\ fn = "preprocess_alert"
    /\ Return("preprocess_alert", Ok(preprocess_alert(arg)))

NextNamespace == CallPreprocessAlert

SpecNamespace == InitNamespace /\ [][NextNamespace]_vars

-----------------------------------------------------------------------------
(* Claims about preprocess_alert *)

\* at position i of the text stands "<" (k = 0) or "</" (k = 1), then "cap:",
\* then a character of a name
CapTagAt(text, i, k) ==
    /\ i + k + 5 <= Len(text)
    /\ text[i] = "<"
    /\ k = 1 => text[i + 1] = "/"
    /\ SubSeq(text, i + k + 1, i + k + 4) = CapPrefix
    /\ text[i + k + 5] \in WordChars

\* the positions of the "cap:" prefixes of the tags of the text
CapPrefixPositions(text) ==
    UNION { (i + k + 1)..(i + k + 4) :
            <<i, k>> \in { p \in (1..Len(text)) \X {0, 1} :
                           CapTagAt(text, p[1], p[2]) } }

\* the characters of the text at the positions of keep, in their order
RECURSIVE KeepFrom(_, _, _)
KeepFrom(text, i, keep) ==
    IF i > Len(text) THEN <<>>
    ELSE (IF i \in keep THEN <<text[i]>> ELSE <<>>)
             \o KeepFrom(text, i + 1, keep)

\* at position i of the text starts a tag whose name has a prefix
PrefixedTagAt(text, i, k) ==
    /\ i + k + 1 <= Len(text)
    /\ text[i] = "<"
    /\ k = 1 => text[i + 1] = "/"
    /\ \E j \in (i + k + 2)..Len(text) :
           /\ text[j] = ":"
           /\ \A n \in (i + k + 1)..(j - 1) : text[n] \in WordChars

HasPrefixedTag(text) ==
    \E i \in 1..Len(text), k \in {0, 1} : PrefixedTagAt(text, i, k)

-----------------------------------------------------------------------------
(* Alert trees handed to get_properties *)

Range(s) == { s[i] : i \in 1..Len(s) }

\* no field, one field, or every field
FieldSets(fields) ==
    {{}, Range(fields)} \cup { {f} : f \in Range(fields) }

\* the fields of present, in the order of the document, each holding its
\* name as its text
Items(fields, present) ==
    LET chosen == SelectSeq(fields, LAMBDA f : f \in present)
    IN  [i \in 1..Len(chosen) |-> <<chosen[i], Str(chosen[i])>>]

InfoWith(present, area) ==
    Dict(Items(InfoFields, present) \o << <<AreaKey, area>> >>)

InfoWithoutArea(present) == Dict(Items(InfoFields, present))

AlertWith(present, info) ==
    Dict(Items(AlertFields, present) \o << <<InfoKey, info>> >>)

AlertWithoutInfo(present) == Dict(Items(AlertFields, present))

ExamplePolygon ==
    Str(<<"-", "1", ".", "0", ",", "5", "1", ".", "0", " ", "-", "1", ".",
        "0", ",", "5", "2", ".", "0", " ", "0", ".", "0", ",", "5", "2",
        ".", "0", " ", "0", ".", "0", ",", "5", "1", ".", "0", " ", "-",
        "1", ".", "0", ",", "5", "1", ".", "0">>)

ExampleCircle == Str(<<"0", ",", "0", " ", "1">>)

AreaA == PolygonArea(ExamplePolygon)

AreaB == CircleArea(ExampleCircle)

\* an area without areaDesc
UndescribedArea == Dict(<< <<PolygonKey, ExamplePolygon>> >>)

\* an area whose areaDesc element is empty
EmptyDescArea == Dict(<< <<AreaDescKey, None>> >>)

\* one area
PropertyAreas == {AreaA, AreaB, BareArea, UndescribedArea, EmptyDescArea}

\* a sequence of areas, the last ones with an area that has no description
PropertyAreaLists ==
    { List(l) : l \in { <<AreaA, AreaB>>, <<AreaB, AreaA>>,
                        <<AreaA, AreaB, AreaA>>, <<AreaA, UndescribedArea>>,
                        <<AreaA, EmptyDescArea>> } }

SomeText == Str(<<"t", "e", "x", "t">>)

\* what the area of an info block can be: one area, a sequence of areas, a
\* sequence with an element that is no area, an empty element, a text
AreaKinds ==
    << PropertyAreas, PropertyAreaLists, {List(<<AreaA, SomeText>>)},
       {List(<<None, AreaA>>)}, {None}, {SomeText} >>

InfosOver(areas) ==
    { InfoWith(present, area) :
          present \in FieldSets(InfoFields), area \in areas }

InfosWithoutArea ==
    { InfoWithoutArea(present) : present \in FieldSets(InfoFields) }

\* two info blocks
TwoInfos == List(<<InfoWith({}, AreaA), InfoWith({}, AreaB)>>)

\* what the info of an alert can be: a block with an area, a block without,
\* two blocks, an empty element, a text
InfoKinds ==
    [k \in 1..Len(AreaKinds) |-> InfosOver(AreaKinds[k])]
        \o << InfosWithoutArea, {TwoInfos}, {None}, {SomeText} >>

AlertsOver(infos) ==
    { AlertWith(present, info) :
          present \in FieldSets(AlertFields), info \in infos }

AlertsWithoutInfo ==
    { AlertWithoutInfo(present) : present \in FieldSets(AlertFields) }

InitProperties ==
    /\ pc = "ready"
    /\ fn = "get_properties"
    /\ \/ \E k \in 1..Len(InfoKinds) : arg \in AlertsOver(InfoKinds[k])
       \/ arg \in AlertsWithoutInfo
       \/ arg = None
       \/ arg = SomeText
    /\ ret = NoValue
    /\ calls = 0
    /\ prev = NoValue

CallGetProperties ==
    /\ fn = "get_properties"
    /\ Return("get_properties", get_properties(arg))

NextProperties == CallGetProperties

SpecProperties == InitProperties /\ [][NextProperties]_vars

-----------------------------------------------------------------------------
(* Claims about get_properties *)

\* the keys of the properties, in their order
PropertyKeys ==
    << <<"i", "d", "e", "n", "t", "i", "f", "i", "e", "r">>,
       <<"s", "e", "n", "d", "e", "r">>,
       <<"s", "e", "n", "t">>,
       <<"s", "t", "a", "t", "u", "s">>,
       <<"m", "s", "g", "T", "y", "p", "e">>,
       <<"s", "c", "o", "p", "e">>,
       <<"c", "a", "t", "e", "g", "o", "r", "y">>,
       <<"e", "v", "e", "n", "t">>,
       <<"u", "r", "g", "e", "n", "c", "y">>,
       <<"s", "e", "v", "e", "r", "i", "t", "y">>,
       <<"c", "e", "r", "t", "a", "i", "n", "t", "y">>,
       <<"e", "f", "f", "e", "c", "t", "i", "v", "e">>,
       <<"o", "n", "s", "e", "t">>,
       <<"e", "x", "p", "i", "r", "e", "s">>,
       <<"s", "e", "n", "d", "e", "r", "N", "a", "m", "e">>,
       <<"h", "e", "a", "d", "l", "i", "n", "e">>,
       <<"d", "e", "s", "c", "r", "i", "p", "t", "i", "o", "n">>,
       <<"i", "n", "s", "t", "r", "u", "c", "t", "i", "o", "n">>,
       <<"w", "e", "b">>,
       <<"c", "o", "n", "t", "a", "c", "t">>,
       <<"a", "r", "e", "a", "D", "e", "s", "c">> >>

DescribedArea(area) == area.t = "dict" /\ HasKey(area, AreaDescKey)

\* the alert tree of the data model: the info block is a mapping, its area
\* is an area with an areaDesc or a sequence of areas with a text areaDesc
HasInfoAndArea(alert) ==
    /\ alert.t = "dict"
    /\ HasKey(alert, InfoKey)
    /\ Lookup(alert, InfoKey).t = "dict"
    /\ HasKey(Lookup(alert, InfoKey), AreaKey)
    /\ \/ DescribedArea(Lookup(Lookup(alert, InfoKey), AreaKey))
       \/ /\ Lookup(Lookup(alert, InfoKey), AreaKey).t = "list"
          /\ \A a \in Range(Lookup(Lookup(alert, InfoKey), AreaKey).v) :
                 DescribedArea(a) /\ Lookup(a, AreaDescKey).t = "str"

\* the value of a field of the source, null when the source has no such field
SourceValue(d, field) == IF HasKey(d, field) THEN Lookup(d, field) ELSE None

\* the areaDesc of one area, or those of the areas with ", " between them
SourceAreaDesc(area) ==
    IF area.t = "dict" THEN Lookup(area, AreaDescKey)
    ELSE Str(JoinWith([i \in 1..Len(area.v)
                           |-> Lookup(area.v[i], AreaDescKey).v],
                      <<",", " ">>))

PropertiesOf(alert, info, properties) ==
    /\ properties.t = "dict"
    /\ [i \in 1..Len(properties.v) |-> properties.v[i][1]] = PropertyKeys
    /\ \A i \in 1..6 :
           properties.v[i][2] = SourceValue(alert, PropertyKeys[i])
    /\ \A i \in 7..20 :
           properties.v[i][2] = SourceValue(info, PropertyKeys[i])
    /\ properties.v[21][2] = SourceAreaDesc(Lookup(info, AreaKey))

\* C7: for an alert tree whose info block is a mapping holding an area (one
\* area with an areaDesc, or a sequence of areas each with a text areaDesc)
\* get_properties does not raise and returns the mapping with exactly the
\* 21 keys; each of the first 20 holds the value of the source, null when
\* the source has no such field; areaDesc is that of the single area, or
\* those of the areas joined with ", " in their order
C7_PropertiesOfAlert ==
    (Returned("get_properties") /\ HasInfoAndArea(arg)) =>
        /\ ret.ok
        /\ PropertiesOf(arg, Lookup(arg, InfoKey), ret.val)

\* C7 witness: the areas "A" and "B" have given "A, B", a field that is
\* present has its value and one that is absent is null
C7_Witness ==
    /\ Returned("get_properties")
    /\ HasInfoAndArea(arg)
    /\ Lookup(Lookup(arg, InfoKey), AreaKey).t = "list"
    /\ Lookup(Lookup(arg, InfoKey), AreaKey).v = <<AreaA, AreaB>>
    /\ HasKey(arg, PropertyKeys[1])
    /\ ~HasKey(arg, PropertyKeys[2])
    /\ ret.ok
    /\ Lookup(ret.val, PropertyKeys[1]) = Str(PropertyKeys[1])
    /\ Lookup(ret.val, PropertyKeys[2]).t = "None"
    /\ Lookup(ret.val, AreaDescKey) = Str(<<"A", ",", " ", "B">>)

-----------------------------------------------------------------------------
(* Documents handed to to_geojson *)

Tag(opener, prefix, name) == opener \o prefix \o name \o <<">">>

\* the element, or the elements, of a value of the alert tree, every tag
\* with the prefix
RECURSIVE Render(_, _, _), RenderItems(_, _, _, _), RenderAll(_, _, _)
Render(name, value, prefix) ==
    CASE value.t = "list" -> RenderAll(name, value.v, prefix)
      [] value.t = "dict" ->
            Tag(<<"<">>, prefix, name)
                \o RenderItems(value.v, prefix, 1, Len(value.v))
                \o Tag(<<"<", "/">>, prefix, name)
      [] value.t = "str" ->
            Tag(<<"<">>, prefix, name) \o value.v
                \o Tag(<<"<", "/">>, prefix, name)
      [] OTHER -> Tag(<<"<">>, prefix, name) \o Tag(<<"<", "/">>, prefix, name)

\* the elements of the items lo to hi
RenderItems(items, prefix, lo, hi) ==
    IF lo > hi THEN <<>>
    ELSE IF lo = hi THEN Render(items[lo][1], items[lo][2], prefix)
    ELSE RenderItems(items, prefix, lo, (lo + hi) \div 2)
             \o RenderItems(items, prefix, (lo + hi) \div 2 + 1, hi)

RenderAll(name, values, prefix) ==
    IF values = <<>> THEN <<>>
    ELSE Render(name, values[1], prefix) \o RenderAll(name, Tail(values), prefix)

\* the fields of the alert and of the info block of a document: none, all,
\* or one of each
DocumentFields ==
    { <<{}, {}>>, <<Range(AlertFields), Range(InfoFields)>>,
      <<{AlertFields[1]}, {InfoFields[2]}>> }

OpenPolygon == Str(<<"0", ",", "0", " ", "1", ",", "0", " ", "1", ",", "1">>)

BadPolygon == Str(<<"x", ",", "1">>)

DocumentAreas ==
    { AreaA, AreaB, BareArea, UndescribedArea, PolygonArea(OpenPolygon),
      PolygonArea(BadPolygon), PolygonArea(None),
      BothArea(ExampleCircle, ExamplePolygon) }

DocumentAreaLists ==
    { List(l) : l \in { <<AreaA, AreaB>>, <<AreaA, AreaA>>,
                        <<AreaA, PolygonArea(BadPolygon)>>,
                        <<AreaA, UndescribedArea>> } }

DocumentAreaKinds ==
    << DocumentAreas, DocumentAreaLists, {None}, {SomeText} >>

\* the alerts with an info block that has an area
AlertsWithArea(areas) ==
    { AlertWith(f[1], InfoWith(f[2], area)) :
          f \in DocumentFields, area \in areas }

\* the alerts whose info block is something else
AlertsWithInfo(info) == { AlertWith(f[1], info) : f \in DocumentFields }

Prefixes == { <<>>, CapPrefix }

Rendered(alerts) ==
    { Render(AlertKey, alert, prefix) : alert \in alerts, prefix \in Prefixes }

ExampleAlert == AlertWith({}, InfoWith({}, AreaA))

\* the minimal document with one info block and one area with a polygon
ExampleDocument == Render(AlertKey, ExampleAlert, <<>>)

\* documents that are no XML
Malformed ==
    { <<>>, SomeText.v, Pop(ExampleDocument),
      ExampleDocument \o ExampleDocument,
      <<"<", "a", "l", "e", "r", "t", ">", "<", "i", "n", "f", "o", ">", "<", "/", "a", "l", "e", "r", "t", ">", "<", "/", "i", "n", "f", "o", ">">> }

\* documents whose root is not the alert
OtherRoots ==
    { Render(AlertKey, ExampleAlert, <<"n", "s", ":">>),
      Render(InfoKey, InfoWith({}, AreaA), <<>>) }

Documents ==
    UNION { Rendered(AlertsWithArea(DocumentAreaKinds[k])) :
                k \in 1..Len(DocumentAreaKinds) }
        \cup Rendered({ AlertWith(f[1], InfoWithoutArea(f[2])) :
                           f \in DocumentFields })
        \cup Rendered(AlertsWithInfo(TwoInfos))
        \cup Rendered(AlertsWithInfo(None))
        \cup Rendered(AlertsWithInfo(SomeText))
        \cup Rendered({AlertWithoutInfo(f[1]) : f \in DocumentFields})
        \cup Rendered({None})
        \cup Malformed \cup OtherRoots

InitConvert ==
    /\ pc = "ready"
    /\ fn = "to_geojson"
    /\ arg \in Documents
    /\ ret = NoValue
    /\ calls = 0
    /\ prev = NoValue

CallToGeojson ==
    /\ fn = "to_geojson"
    /\ Return("to_geojson", to_geojson(arg))

NextConvert == CallToGeojson

SpecConvert == InitConvert /\ [][NextConvert]_vars

-----------------------------------------------------------------------------
(* Claims about to_geojson *)

\* the tree the parser makes of the document, after preprocess_alert
Parsed(xml) == xmltodict_parse(preprocess_alert(xml))

NoAlert(data) == ~HasKey(data, AlertKey)

NoInfo(alert) == alert.t # "dict" \/ ~HasKey(alert, InfoKey)

NoArea(info) ==
    \/ info.t \in {"None", "str"}
    \/ info.t = "dict" /\ ~HasKey(info, AreaKey)

\* the parsed document lacks the alert root, the info block or the area
LacksStructure(data) ==
    \/ NoAlert(data)
    \/ NoInfo(Lookup(data, AlertKey))
    \/ NoArea(Lookup(Lookup(data, AlertKey), InfoKey))

\* the text is that of the FeatureCollection with these properties and this
\* geometry, both of them computed
CompleteFrom(text, properties, geometry) ==
    /\ properties.ok
    /\ geometry.ok
    /\ text = json_dumps(feature_collection(properties.val,
                                            geometry_value(geometry.val)))

IsComplete(text, alert) ==
    CompleteFrom(text, get_properties(alert),
                 get_geometry(Lookup(Lookup(alert, InfoKey), AreaKey)))

AtomicOutcome(parsed, result) ==
    IF ~parsed.ok \/ LacksStructure(parsed.val)
    THEN ~result.ok /\ DOMAIN result = {"ok", "exc"}
    ELSE result.ok => IsComplete(result.val, Lookup(parsed.val, AlertKey))

\* C9: when the document is no XML, or the parsed document lacks the alert
\* root, the info block or the area element, to_geojson raises and returns
\* nothing; when it returns, what it returns is the complete
\* FeatureCollection, with the properties and the geometry of the alert
C9_StructureErrorsAtomic ==
    Returned("to_geojson") => AtomicOutcome(Parsed(arg), ret)

\* the alert of the parsed document has an info block without area
InfoWithoutAreaParsed(parsed) ==
    /\ parsed.ok
    /\ ~NoAlert(parsed.val)
    /\ ~NoInfo(Lookup(parsed.val, AlertKey))
    /\ Lookup(Lookup(parsed.val, AlertKey), InfoKey).t = "dict"
    /\ NoArea(Lookup(Lookup(parsed.val, AlertKey), InfoKey))

\* C9 witness: to_geojson has raised on a well-formed document whose info
\* block has no area
C9_Witness ==
    /\ Returned("to_geojson")
    /\ InfoWithoutAreaParsed(Parsed(arg))
    /\ ~ret.ok
    /\ ret.exc = "TypeError"

ExampleRing ==
    << <<FInt(-1), FInt(51)>>, <<FInt(0), FInt(51)>>, <<FInt(0), FInt(52)>>,
       <<FInt(-1), FInt(52)>>, <<FInt(-1), FInt(51)>> >>

\* a FeatureCollection object with exactly one Feature
IsFeatureCollection(o) ==
    /\ o.t = "dict"
    /\ HasKey(o, TypeKey)
    /\ Lookup(o, TypeKey) = Str(<<"F", "e", "a", "t", "u", "r", "e", "C", "o", "l", "l", "e", "c", "t", "i", "o", "n">>)
    /\ HasKey(o, FeaturesKey)
    /\ Lookup(o, FeaturesKey).t = "list"
    /\ Len(Lookup(o, FeaturesKey).v) = 1
    /\ Lookup(o, FeaturesKey).v[1].t = "dict"
    /\ Lookup(Lookup(o, FeaturesKey).v[1], TypeKey) = Str(<<"F", "e", "a", "t", "u", "r", "e">>)

\* the Feature of the example: the ring of the polygon, counter-clockwise,
\* and the areaDesc of the source
IsExampleFeature(feature) ==
    /\ Lookup(feature, GeometryKey)
         = geometry_value([type |-> "Polygon",
                           coordinates |-> <<ExampleRing>>])
    /\ Lookup(Lookup(feature, PropertiesKey), AreaDescKey) = AreaDescA

\* C3, as stated: every successful call of to_geojson returns a
\* FeatureCollection object with exactly one Feature; for the document with
\* one info block and one area with the polygon "-1.0,51.0 -1.0,52.0
\* 0.0,52.0 0.0,51.0 -1.0,51.0" the geometry of the Feature is the Polygon
\* with the ring [[-1,51],[0,51],[0,52],[-1,52],[-1,51]] and its areaDesc
\* that of the source
C3_ReturnsFeatureCollectionObject ==
    (Returned("to_geojson") /\ ret.ok) =>
        /\ IsFeatureCollection(ret.val)
        /\ arg = ExampleDocument
               => IsExampleFeature(Lookup(ret.val, FeaturesKey).v[1])

=============================================================================
